---- MODULE Spec2Model ----
(***************************************************************************)
(* SECaaS insider-threat detection: the risk scoring engine               *)
(* (backend/services/risk_detector.py), the three endpoints               *)
(* (backend/main.py) and the store they read and write                    *)
(* (backend/models/*.py).                                                 *)
(*                                                                         *)
(* backend/models/role.py names relationship without importing it, so    *)
(* the models package does not import as it stands; the model describes   *)
(* the service with that import in place.                                 *)
(*                                                                         *)
(* Conventions.  An Optional value is None (the empty tuple) or           *)
(* Some(x) (the one-element tuple).  A datetime is a number of minutes:   *)
(* DateTime(d, h, m) is day d at h:m.  avg_records_per_access is a        *)
(* Numeric(10, 2) and is kept in hundredths.  The alert_level query       *)
(* parameter, which the code upper-cases, is a sequence of characters.    *)
(*                                                                         *)
(* ORDER BY generated_at DESC leaves the order of rows with equal         *)
(* generated_at to the store.  The store's choice is the variable scan:   *)
(* any order that is descending in generated_at, chosen when the alerts   *)
(* table is written and kept while the table is not.                      *)
(***************************************************************************)
EXTENDS Integers, Sequences, FiniteSets, TLC

VARIABLES
    users,           \* table users: user_id -> [role_id, status]
    roles,           \* table roles: role_id -> role_name
    role_policies,   \* table role_policies: set of [role_id, action, resource]
    role_baselines,  \* table role_baselines: role_id -> baseline row
    activity_logs,   \* table activity_logs, in insertion order
    alerts,          \* table alerts, in insertion order
    scan,            \* the order the store returns the alerts rows in for
                     \* ORDER BY generated_at DESC: positions in alerts
    frame,           \* locals of the latest log_activity call
    request,         \* latest HTTP request: [op, params]
    resp,            \* latest HTTP response
    calls,           \* number of log_activity calls made (bounded by MaxCalls)
    probe,           \* latest direct call of a RiskDetector check: its
                     \* arguments and the pair it returned
    procs            \* worker threads running log_activity concurrently, each
                     \* with its own session: position and locals of each

vars == <<users, roles, role_policies, role_baselines, activity_logs, alerts,
          scan, frame, request, resp, calls, probe, procs>>

db == <<users, roles, role_policies, role_baselines, activity_logs, alerts>>

(***************************************************************************)
(* Bounds of the model.                                                    *)
(***************************************************************************)
MaxCalls == 2

(***************************************************************************)
(* Optional values and datetimes.                                          *)
(***************************************************************************)
None == <<>>
Some(x) == <<x>>

\* timedelta(days=1), in minutes
MinutesPerDay == 24 * 60

DateTime(d, h, m) == d * MinutesPerDay + h * 60 + m

\* datetime.hour, datetime.minute
HourOf(t) == (t % MinutesPerDay) \div 60
MinuteOf(t) == t % 60

\* access_time.replace(hour=0, minute=0, second=0, microsecond=0)
DayStart(t) == t - (t % MinutesPerDay)

TwoDigits(n) == IF n < 10 THEN "0" \o ToString(n) ELSE ToString(n)

\* access_time.strftime('%H:%M')
StrfHM(t) == TwoDigits(HourOf(t)) \o ":" \o TwoDigits(MinuteOf(t))

\* str(float(x)) of a Numeric(10, 2) value kept in hundredths: 500 -> "5.0"
FloatStr(c) ==
    ToString(c \div 100) \o "." \o
        (IF c % 10 = 0 THEN ToString((c % 100) \div 10) ELSE TwoDigits(c % 100))

\* str.upper() of one character and of a sequence of characters
UpperChar(c) ==
    CASE c = "a" -> "A" [] c = "c" -> "C" [] c = "d" -> "D" [] c = "e" -> "E"
      [] c = "g" -> "G" [] c = "h" -> "H" [] c = "i" -> "I" [] c = "l" -> "L"
      [] c = "m" -> "M" [] c = "o" -> "O" [] c = "r" -> "R" [] c = "t" -> "T"
      [] c = "u" -> "U" [] c = "w" -> "W" [] OTHER -> c

Upper(chars) == [i \in 1..Len(chars) |-> UpperChar(chars[i])]

\* the string a sequence of characters spells
RECURSIVE Str(_)
Str(chars) == IF chars = <<>> THEN "" ELSE Head(chars) \o Str(Tail(chars))

(***************************************************************************)
(* Configuration (backend/config.py).                                      *)
(***************************************************************************)
RISK_SCORE_THRESHOLD == 70

\* dict order is insertion order: LOW, MEDIUM, HIGH
ALERT_LEVELS ==
    << [level |-> "LOW",    low |-> 70, high |-> 79],
       [level |-> "MEDIUM", low |-> 80, high |-> 89],
       [level |-> "HIGH",   low |-> 90, high |-> 100] >>

RISK_WEIGHTS ==
    [policy_violation |-> 40, excessive_records |-> 20,
     off_hour_access |-> 25, high_frequency |-> 15]

\* A rounding slip: the percentage is rounded to the nearest integer, halves
\* upward, in place of being truncated.
PctRounded(w, tenths) == (w * tenths + 5) \div 10

\* int(w * 0.8), int(w * 0.7), int(w * 0.5): truncation toward zero
Pct(w, tenths) == (w * tenths) \div 10

(***************************************************************************)
(* RiskDetector (backend/services/risk_detector.py).  Every method reads   *)
(* the tables through the session; the tables it reads are parameters     *)
(* where a caller may hold a different snapshot of them.                   *)
(***************************************************************************)

\* get_user_and_role: the users row of user_id, or None
get_user(user_id) ==
    IF user_id \in DOMAIN users THEN Some(users[user_id]) ELSE None

\* the roles row of role_id, or None
get_role(role_id) ==
    IF role_id \in DOMAIN roles THEN Some(roles[role_id]) ELSE None

\* A lookup slip: a role without a baseline is given the first baseline of
\* the table.
get_role_baseline_any(role_id) ==
    IF role_id \in DOMAIN role_baselines THEN Some(role_baselines[role_id])
    ELSE IF DOMAIN role_baselines = {} THEN None
    ELSE Some(role_baselines[CHOOSE r \in DOMAIN role_baselines :
                                 \A q \in DOMAIN role_baselines : r <= q])

\* db.query(RoleBaseline).filter(role_id == ...).first()
get_role_baseline(role_id) ==
    IF role_id \in DOMAIN role_baselines THEN Some(role_baselines[role_id])
    ELSE None

\* A lookup slip: the action and resource arguments are swapped in the filter.
check_policy_violation_swapped(role_id, action, resource) ==
    IF \E policy \in role_policies :
           /\ policy.role_id = role_id
           /\ policy.action = resource
           /\ policy.resource = action
    THEN <<FALSE, "">>
    ELSE <<TRUE, "Unauthorized " \o action \o " access to " \o resource>>

\* check_policy_violation: <<is_violation, reason>>.  The filter compares
\* role_id, action and resource for equality, nothing else.
check_policy_violation(role_id, action, resource) ==
    IF \E policy \in role_policies :
           /\ policy.role_id = role_id
           /\ policy.action = action
           /\ policy.resource = resource
    THEN <<FALSE, "">>
    ELSE <<TRUE, "Unauthorized " \o action \o " access to " \o resource>>

\* A scoring slip: the contribution scales with the distance from the
\* baseline, (ratio - 1) * weight, and so goes below 0 under the baseline.
check_excessive_records_scaled(role_baseline, records_accessed) ==
    IF role_baseline = None THEN <<0, "">>
    ELSE LET baseline_avg == role_baseline[1].avg_records_per_access
         IN  IF baseline_avg > 0
             THEN <<(RISK_WEIGHTS.excessive_records
                        * (records_accessed * 100 - baseline_avg)) \div baseline_avg,
                    "Scaled records access">>
             ELSE <<0, "">>

\* A tier slip: the contributions of the highest and the lowest tier are
\* exchanged.
check_excessive_records_swapped(role_baseline, records_accessed) ==
    IF role_baseline = None THEN <<0, "">>
    ELSE LET baseline_avg == role_baseline[1].avg_records_per_access
         IN  IF baseline_avg > 0
             THEN IF records_accessed * 100 > 10 * baseline_avg
                       THEN <<Pct(RISK_WEIGHTS.excessive_records, 5), "Extreme">>
                  ELSE IF records_accessed * 100 > 5 * baseline_avg
                       THEN <<Pct(RISK_WEIGHTS.excessive_records, 8), "Excessive">>
                  ELSE IF records_accessed * 100 > 2 * baseline_avg
                       THEN <<RISK_WEIGHTS.excessive_records, "Elevated">>
                  ELSE <<0, "">>
             ELSE <<0, "">>

\* check_excessive_records: <<contribution, reason>>.
\* ratio = records_accessed / baseline_avg with baseline_avg in hundredths:
\* ratio > k  iff  records_accessed * 100 > k * avg_records_per_access
check_excessive_records(role_baseline, records_accessed) ==
    IF role_baseline = None THEN <<0, "">>
    ELSE LET baseline_avg == role_baseline[1].avg_records_per_access
             tail == " records access (" \o ToString(records_accessed)
                       \o " vs baseline " \o FloatStr(baseline_avg) \o ")"
         IN  IF baseline_avg > 0
             THEN IF records_accessed * 100 > 10 * baseline_avg
                       THEN <<RISK_WEIGHTS.excessive_records, "Extreme" \o tail>>
                  ELSE IF records_accessed * 100 > 5 * baseline_avg
                       THEN <<Pct(RISK_WEIGHTS.excessive_records, 8),
                              "Excessive" \o tail>>
                  ELSE IF records_accessed * 100 > 2 * baseline_avg
                       THEN <<Pct(RISK_WEIGHTS.excessive_records, 5),
                              "Elevated" \o tail>>
                  ELSE <<0, "">>
             ELSE <<0, "">>

\* A boundary slip: normal_end_hour itself counts as outside the normal
\* hours.
check_off_hour_access_exclusive(role_baseline, access_time) ==
    IF role_baseline = None THEN <<0, "">>
    ELSE LET hour == HourOf(access_time)
             normal_start_hour == role_baseline[1].normal_start_hour
             normal_end_hour == role_baseline[1].normal_end_hour
             hours_outside == IF hour < normal_start_hour
                              THEN normal_start_hour - hour
                              ELSE hour - normal_end_hour
         IN  IF hour < normal_start_hour \/ hour >= normal_end_hour
             THEN IF hours_outside >= 4
                       THEN <<RISK_WEIGHTS.off_hour_access, "Severe">>
                  ELSE IF hours_outside >= 2
                       THEN <<Pct(RISK_WEIGHTS.off_hour_access, 7), "Off-hour">>
                  ELSE <<Pct(RISK_WEIGHTS.off_hour_access, 5), "Early/late">>
             ELSE <<0, "">>

\* check_off_hour_access: <<contribution, reason>>
check_off_hour_access(role_baseline, access_time) ==
    IF role_baseline = None THEN <<0, "">>
    ELSE LET hour == HourOf(access_time)
             normal_start_hour == role_baseline[1].normal_start_hour
             normal_end_hour == role_baseline[1].normal_end_hour
             hours_outside == IF hour < normal_start_hour
                              THEN normal_start_hour - hour
                              ELSE hour - normal_end_hour
         IN  IF hour < normal_start_hour \/ hour > normal_end_hour
             THEN IF hours_outside >= 4
                       THEN <<RISK_WEIGHTS.off_hour_access,
                              "Severe off-hour access at " \o StrfHM(access_time)>>
                  ELSE IF hours_outside >= 2
                       THEN <<Pct(RISK_WEIGHTS.off_hour_access, 7),
                              "Off-hour access at " \o StrfHM(access_time)>>
                  ELSE <<Pct(RISK_WEIGHTS.off_hour_access, 5),
                         "Early/late access at " \o StrfHM(access_time)>>
             ELSE <<0, "">>

\* An ordering slip: the event being ingested is counted with the rows, as
\* if it were recorded before the count is taken.
AccessCountWithEvent(logs, user_id, access_time) ==
    LET day_start == DayStart(access_time)
        day_end == day_start + MinutesPerDay
    IN  Cardinality({i \in 1..Len(logs) :
            /\ logs[i].user_id = user_id
            /\ logs[i].access_time >= day_start
            /\ logs[i].access_time < day_end}) + 1

\* The count query of check_access_frequency over the rows `logs`:
\* user_id equal, access_time in [day_start, day_end)
AccessCount(logs, user_id, access_time) ==
    LET day_start == DayStart(access_time)
        day_end == day_start + MinutesPerDay
    IN  Cardinality({i \in 1..Len(logs) :
            /\ logs[i].user_id = user_id
            /\ logs[i].access_time >= day_start
            /\ logs[i].access_time < day_end})

\* check_access_frequency: <<contribution, reason>>.
\* ratio = access_count / avg_access_per_day; ratio > 1.5 iff 2*count > 3*avg
check_access_frequency(logs, user_id, role_baseline, access_time) ==
    IF role_baseline = None THEN <<0, "">>
    ELSE LET access_count == AccessCount(logs, user_id, access_time)
             baseline_avg == role_baseline[1].avg_access_per_day
             tail == " access frequency (" \o ToString(access_count) \o " today)"
         IN  IF baseline_avg > 0
             THEN IF access_count > 3 * baseline_avg
                       THEN <<RISK_WEIGHTS.high_frequency, "Extremely high" \o tail>>
                  ELSE IF access_count > 2 * baseline_avg
                       THEN <<Pct(RISK_WEIGHTS.high_frequency, 7),
                              "Elevated" \o tail>>
                  ELSE IF 2 * access_count > 3 * baseline_avg
                       THEN <<Pct(RISK_WEIGHTS.high_frequency, 5),
                              "Increased" \o tail>>
                  ELSE <<0, "">>
             ELSE <<0, "">>

\* An ordering slip: a reason is put at the head of the list.
AppendIfFront(reasons, reason) ==
    IF reason # "" THEN <<reason>> \o reasons ELSE reasons

\* reasons.append(reason) when the reason is a non-empty string
AppendIf(reasons, reason) ==
    IF reason # "" THEN Append(reasons, reason) ELSE reasons

Min(a, b) == IF a <= b THEN a ELSE b

\* A slip in the fail-safe: the status of the user is not looked at.
calculate_risk_score_any_status(logs, user_id, action, resource, records_accessed, access_time) ==
    LET user == get_user(user_id)
    IN  IF user = None THEN <<100, <<"User not found">> >>
        ELSE
        LET role_baseline == get_role_baseline(user[1].role_id)
            violation == check_policy_violation(user[1].role_id, action, resource)
            records == check_excessive_records(role_baseline, records_accessed)
            hours == check_off_hour_access(role_baseline, access_time)
            freq == check_access_frequency(logs, user_id, role_baseline, access_time)
            score1 == IF violation[1] THEN RISK_WEIGHTS.policy_violation ELSE 0
            reasons1 == IF violation[1] THEN <<violation[2]>> ELSE <<>>
            total_score == score1 + records[1] + hours[1] + freq[1]
            reasons == AppendIf(AppendIf(AppendIf(reasons1, records[2]),
                                         hours[2]), freq[2])
        IN  <<Min(total_score, 100), reasons>>

\* A slip in the fail-safe: the score of an account that is not active is
\* returned without its reason.
calculate_risk_score_silent(logs, user_id, action, resource, records_accessed, access_time) ==
    LET user == get_user(user_id)
    IN  IF user = None THEN <<100, <<"User not found">> >>
        ELSE IF user[1].status # "active" THEN <<100, <<>> >>
        ELSE
        LET role_baseline == get_role_baseline(user[1].role_id)
            violation == check_policy_violation(user[1].role_id, action, resource)
            records == check_excessive_records(role_baseline, records_accessed)
            hours == check_off_hour_access(role_baseline, access_time)
            freq == check_access_frequency(logs, user_id, role_baseline, access_time)
            score1 == IF violation[1] THEN RISK_WEIGHTS.policy_violation ELSE 0
            reasons1 == IF violation[1] THEN <<violation[2]>> ELSE <<>>
            total_score == score1 + records[1] + hours[1] + freq[1]
            reasons == AppendIf(AppendIf(AppendIf(reasons1, records[2]),
                                         hours[2]), freq[2])
        IN  <<Min(total_score, 100), reasons>>

\* calculate_risk_score: <<total_score, reasons>>
calculate_risk_score(logs, user_id, action, resource, records_accessed, access_time) ==
    LET user == get_user(user_id)
    IN  IF user = None THEN <<100, <<"User not found">> >>
        ELSE IF user[1].status # "active"
             THEN <<100, <<"User account is " \o user[1].status>> >>
        ELSE
        LET role_baseline == get_role_baseline(user[1].role_id)
            violation == check_policy_violation(user[1].role_id, action, resource)
            records == check_excessive_records(role_baseline, records_accessed)
            hours == check_off_hour_access(role_baseline, access_time)
            freq == check_access_frequency(logs, user_id, role_baseline, access_time)
            score1 == IF violation[1] THEN RISK_WEIGHTS.policy_violation ELSE 0
            reasons1 == IF violation[1] THEN <<violation[2]>> ELSE <<>>
            total_score == score1 + records[1] + hours[1] + freq[1]
            reasons == AppendIf(AppendIf(AppendIf(reasons1, records[2]),
                                         hours[2]), freq[2])
        IN  <<Min(total_score, 100), reasons>>

\* get_alert_level: the first band of ALERT_LEVELS holding the score, else
\* the fallback of line 295
RECURSIVE FirstBand(_, _)
FirstBand(bands, risk_score) ==
    IF bands = <<>> THEN None
    ELSE IF Head(bands).low <= risk_score /\ risk_score <= Head(bands).high
         THEN Some(Head(bands).level)
    ELSE FirstBand(Tail(bands), risk_score)

\* A boundary slip: the lower bound of a band is taken as exclusive.
RECURSIVE FirstBandAbove(_, _)
FirstBandAbove(bands, risk_score) ==
    IF bands = <<>> THEN None
    ELSE IF Head(bands).low < risk_score /\ risk_score <= Head(bands).high
         THEN Some(Head(bands).level)
    ELSE FirstBandAbove(Tail(bands), risk_score)

get_alert_level_exclusive(risk_score) ==
    LET band == FirstBandAbove(ALERT_LEVELS, risk_score)
    IN  IF band # None THEN band[1]
        ELSE IF risk_score >= 90 THEN "HIGH" ELSE "MEDIUM"

get_alert_level(risk_score) ==
    LET band == FirstBand(ALERT_LEVELS, risk_score)
    IN  IF band # None THEN band[1]
        ELSE IF risk_score >= 90 THEN "HIGH" ELSE "MEDIUM"

\* should_generate_alert
should_generate_alert(risk_score) == risk_score >= RISK_SCORE_THRESHOLD

\* "; ".join(reasons)
RECURSIVE Join(_)
Join(reasons) ==
    IF reasons = <<>> THEN ""
    ELSE IF Len(reasons) = 1 THEN reasons[1]
    ELSE reasons[1] \o "; " \o Join(Tail(reasons))

(***************************************************************************)
(* The store.  Reference data as init_db.py seeds it, with the rows a      *)
(* deployment adds to it: an inactive user, a role whose baseline has a    *)
(* small daily average and a wildcard WRITE grant, and a role without a    *)
(* baseline.                                                               *)
(***************************************************************************)
SeedRoles ==
    (1 :> "admin") @@ (2 :> "manager") @@ (3 :> "staff")
    @@ (4 :> "intern") @@ (5 :> "temp")

SeedUsers ==
    ("admin001" :> [role_id |-> 1, status |-> "active"])
    @@ ("manager001" :> [role_id |-> 2, status |-> "active"])
    @@ ("staff001" :> [role_id |-> 3, status |-> "active"])
    @@ ("staff002" :> [role_id |-> 3, status |-> "active"])
    @@ ("former001" :> [role_id |-> 3, status |-> "inactive"])
    @@ ("intern001" :> [role_id |-> 4, status |-> "active"])
    @@ ("temp001" :> [role_id |-> 5, status |-> "active"])

Policy(r, a, res) == [role_id |-> r, action |-> a, resource |-> res]

SeedPolicies ==
    { Policy(1, "READ", "*"), Policy(1, "WRITE", "*"),
      Policy(1, "UPDATE", "*"), Policy(1, "DELETE", "*"),
      Policy(2, "READ", "Finance_Reports"), Policy(2, "READ", "Employee_Records"),
      Policy(2, "WRITE", "Finance_Reports"), Policy(2, "UPDATE", "Finance_Reports"),
      Policy(3, "READ", "General_Documents"), Policy(3, "READ", "Public_Reports"),
      Policy(3, "WRITE", "Own_Work"),
      Policy(4, "READ", "General_Documents"), Policy(4, "WRITE", "*"),
      Policy(5, "READ", "General_Documents") }

Baseline(recs, perday, start, end) ==
    [avg_records_per_access |-> recs, avg_access_per_day |-> perday,
     normal_start_hour |-> start, normal_end_hour |-> end]

SeedBaselines ==
    (1 :> Baseline(10000, 50, 0, 23))
    @@ (2 :> Baseline(5000, 30, 7, 19))
    @@ (3 :> Baseline(500, 20, 9, 17))
    @@ (4 :> Baseline(500, 1, 9, 17))

(***************************************************************************)
(* Request fields of POST /logActivity (schemas/activity.py).              *)
(***************************************************************************)
UserIds == {"staff001", "intern001", "temp001", "former001", "ghost001"}
Actions == {"READ", "WRITE"}
Resources == {"General_Documents", "Finance_Reports"}
RecordCounts == {3, 5200}
AccessTimes == {DateTime(2, 10, 0), DateTime(2, 22, 14)}
SourceIps == {Some("10.10.1.5")}

\* Path parameter of GET /getUserRisk/{user_id}
QueryUserIds == {"staff001", "temp001", "ghost001"}

\* Query parameters of GET /getAlerts: absent, or a value (the empty string
\* of "?user_id=" and "?alert_level=" included)
AlertUserIds == {None, Some("staff001"), Some("")}

AlertLevelParams ==
    {None, Some(<<"h", "i", "g", "h">>), Some(<<"L", "O", "W">>),
     Some(<<"M", "e", "d", "i", "u", "m">>),
     Some(<<"C", "R", "I", "T", "I", "C", "A", "L">>), Some(<<>>)}

FromTimes == {None, Some(DateTime(1, 12, 0))}
ToTimes == {None, Some(DateTime(1, 22, 0))}

AlertsQuery ==
    [user_id : AlertUserIds, alert_level : AlertLevelParams,
     from_time : FromTimes, to_time : ToTimes]

ActivityLogRequest ==
    [user_id : UserIds, action : Actions, resource : Resources,
     records_accessed : RecordCounts, access_time : AccessTimes,
     source_ip : SourceIps]

\* the events ingested between queries: an unknown user's, one that every
\* rule but the Frequency Check flags, and one that no rule flags
IngestSample ==
    {activity \in ActivityLogRequest :
        /\ activity.action = "READ"
        /\ \/ /\ activity.user_id = "ghost001"
              /\ activity.resource = "Finance_Reports"
              /\ activity.records_accessed = 3
              /\ activity.access_time = DateTime(2, 10, 0)
           \/ /\ activity.user_id = "staff001"
              /\ activity.resource = "Finance_Reports"
              /\ activity.records_accessed = 5200
              /\ activity.access_time = DateTime(2, 22, 14)
           \/ /\ activity.user_id = "staff001"
              /\ activity.resource = "General_Documents"
              /\ activity.records_accessed = 3
              /\ activity.access_time = DateTime(2, 10, 0)}

(***************************************************************************)
(* Rows already in activity_logs and alerts when the service starts.       *)
(***************************************************************************)
LogRow(id, u, t) ==
    [log_id |-> id, user_id |-> u, action |-> "READ",
     resource |-> "General_Documents", records_accessed |-> 3,
     access_time |-> t, source_ip |-> Some("10.10.1.5")]

\* intern001 has two rows on day 2 (one at midnight sharp), one on day 1
\* and one on day 3; staff001 has one row on day 2
History2 ==
    << LogRow(1, "intern001", DateTime(2, 0, 0)),
       LogRow(2, "intern001", DateTime(1, 23, 59)),
       LogRow(3, "staff001", DateTime(2, 9, 30)),
       LogRow(4, "intern001", DateTime(3, 0, 0)),
       LogRow(5, "intern001", DateTime(2, 9, 30)) >>

\* ... and two more on day 2
History4 ==
    History2 \o << LogRow(6, "intern001", DateTime(2, 9, 45)),
                   LogRow(7, "intern001", DateTime(2, 23, 59)) >>


AlertRow(id, u, score, level, reasons, t) ==
    [alert_id |-> id, user_id |-> u, risk_score |-> score, alert_level |-> level,
     reasons |-> reasons, generated_at |-> Some(t)]

\* staff001's newest alert is not the one inserted last, and two of its
\* alerts carry the same generated_at
Alerts4 ==
    << AlertRow(1, "staff001", 92, "HIGH", "Unauthorized READ access to Payroll",
                DateTime(1, 22, 0)),
       AlertRow(2, "staff001", 75, "LOW", "Unauthorized READ access to Payroll",
                DateTime(1, 8, 0)),
       AlertRow(3, "former001", 100, "HIGH", "User account is inactive",
                DateTime(1, 12, 0)),
       AlertRow(4, "staff001", 85, "MEDIUM", "Unauthorized READ access to Payroll",
                DateTime(1, 22, 0)) >>

\* the contents of the two tables at start
PriorStores ==
    { [logs |-> <<>>, alerts |-> <<>>],
      [logs |-> History2, alerts |-> SubSeq(Alerts4, 1, 2)],
      [logs |-> History4, alerts |-> Alerts4] }

(***************************************************************************)
(* Column constraints the store enforces on commit (backend/models).       *)
(***************************************************************************)

\* activity_logs: user_id is a foreign key to users.user_id; user_id,
\* action, resource and access_time are NOT NULL; String(n) columns hold
\* at most n characters
ActivityLogInsertOk(row) ==
    /\ row.user_id \in DOMAIN users
    /\ Len(row.user_id) <= 50
    /\ Len(row.action) <= 10
    /\ Len(row.resource) <= 100
    /\ row.source_ip # None => Len(row.source_ip[1]) <= 45

\* alerts: user_id is a foreign key to users.user_id; every column is
\* NOT NULL, generated_at included, and none has a default
AlertInsertOk(row) ==
    /\ row.user_id \in DOMAIN users
    /\ Len(row.user_id) <= 50
    /\ Len(row.alert_level) <= 10
    /\ row.generated_at # None

\* ActivityLogResponse: risk_score is declared ge=0, le=100
ActivityLogResponseOk(body) == body.risk_score >= 0 /\ body.risk_score <= 100

(***************************************************************************)
(* RiskDetector.create_activity_log and create_alert: the object each      *)
(* constructs and hands to db.add / db.commit.                             *)
(***************************************************************************)
NewActivityLog(logs, activity) ==
    [log_id |-> Len(logs) + 1,
     user_id |-> activity.user_id,
     action |-> activity.action,
     resource |-> activity.resource,
     records_accessed |-> activity.records_accessed,
     access_time |-> activity.access_time,
     source_ip |-> activity.source_ip]

\* Alert(user_id=, risk_score=, alert_level=, reasons=): generated_at is
\* not passed and stays None
NewAlert(rows, user_id, risk_score, alert_level, reasons) ==
    [alert_id |-> Len(rows) + 1,
     user_id |-> user_id,
     risk_score |-> risk_score,
     alert_level |-> alert_level,
     reasons |-> Join(reasons),
     generated_at |-> None]

\* the orders ORDER BY generated_at DESC may return the rows of the table
\* in: the permutations of the positions that are descending in generated_at
SortedScans(rows) ==
    {p \in [1..Len(rows) -> 1..Len(rows)] :
        /\ \A i, j \in 1..Len(rows) : i # j => p[i] # p[j]
        /\ \A i, j \in 1..Len(rows) :
               i < j => rows[p[i]].generated_at[1] >= rows[p[j]].generated_at[1]}

\* the place of row i in the order scan
ScanPos(i) == CHOOSE k \in 1..Len(scan) : scan[k] = i

(***************************************************************************)
(* Call frames and HTTP responses.                                         *)
(***************************************************************************)
NoFrame ==
    [called |-> FALSE, activity |-> None, risk_score |-> 0, reasons |-> <<>>,
     alert_generated |-> FALSE, alert_level |-> None, raised |-> "none"]

NoRequest == [op |-> "none", params |-> None]

NoResponse == [op |-> "none", status |-> 0, body |-> None]

\* an exception that leaves the handler: FastAPI answers 500
ServerError(op) ==
    [op |-> op, status |-> 500, body |-> [detail |-> "Internal Server Error"]]

(***************************************************************************)
(* POST /logActivity (main.py, log_activity).                              *)
(***************************************************************************)
\* A transaction slip: the two writes share one transaction, so a failing
\* alert write takes the activity row of the call with it.
LogActivityOneTransaction(activity) ==
    /\ calls < MaxCalls
    /\ calls' = calls + 1
    /\ request' = [op |-> "logActivity", params |-> activity]
    /\ LET scored == calculate_risk_score(activity_logs, activity.user_id,
                          activity.action, activity.resource,
                          activity.records_accessed, activity.access_time)
           risk_score == scored[1]
           reasons == scored[2]
           activity_log == NewActivityLog(activity_logs, activity)
           alerting == should_generate_alert(risk_score)
           alert_level == get_alert_level(risk_score)
           alert == NewAlert(alerts, activity.user_id, risk_score, alert_level,
                             reasons)
           body == [status |-> "processed", risk_score |-> risk_score,
                    alert_generated |-> alerting]
           called == [NoFrame EXCEPT !.called = TRUE, !.activity = activity,
                          !.risk_score = risk_score, !.reasons = reasons]
       IN  IF ~ActivityLogInsertOk(activity_log)
           THEN /\ frame' = [called EXCEPT !.raised = "create_activity_log"]
                /\ resp' = ServerError("logActivity")
                /\ UNCHANGED <<activity_logs, alerts>>
           ELSE IF alerting /\ ~AlertInsertOk(alert)
           THEN /\ frame' = [called EXCEPT !.alert_generated = TRUE,
                                 !.alert_level = Some(alert_level),
                                 !.raised = "create_alert"]
                /\ resp' = ServerError("logActivity")
                /\ UNCHANGED <<activity_logs, alerts>>
           ELSE /\ activity_logs' = Append(activity_logs, activity_log)
                /\ frame' = [called EXCEPT !.alert_generated = alerting,
                                 !.alert_level = IF alerting
                                                 THEN Some(alert_level)
                                                 ELSE None]
                /\ alerts' = IF alerting THEN Append(alerts, alert) ELSE alerts
                /\ resp' = IF ActivityLogResponseOk(body)
                           THEN [op |-> "logActivity", status |-> 200,
                                 body |-> body]
                           ELSE ServerError("logActivity")
    /\ IF alerts' = alerts THEN scan' = scan ELSE scan' \in SortedScans(alerts')
    /\ UNCHANGED <<users, roles, role_policies, role_baselines, probe, procs>>

LogActivity(activity) ==
    /\ calls < MaxCalls
    /\ calls' = calls + 1
    /\ request' = [op |-> "logActivity", params |-> activity]
    /\ LET scored == calculate_risk_score(activity_logs, activity.user_id,
                          activity.action, activity.resource,
                          activity.records_accessed, activity.access_time)
           risk_score == scored[1]
           reasons == scored[2]
           activity_log == NewActivityLog(activity_logs, activity)
           logged == ActivityLogInsertOk(activity_log)
           alerting == should_generate_alert(risk_score)
           alert_level == get_alert_level(risk_score)
           alert == NewAlert(alerts, activity.user_id, risk_score, alert_level,
                             reasons)
           body == [status |-> "processed", risk_score |-> risk_score,
                    alert_generated |-> alerting]
           called == [NoFrame EXCEPT !.called = TRUE, !.activity = activity,
                          !.risk_score = risk_score, !.reasons = reasons]
       IN  IF ~logged
           THEN \* db.commit() of create_activity_log raises
                /\ frame' = [called EXCEPT !.raised = "create_activity_log"]
                /\ resp' = ServerError("logActivity")
                /\ UNCHANGED <<activity_logs, alerts>>
           ELSE
           /\ activity_logs' = Append(activity_logs, activity_log)
           /\ IF ~alerting
              THEN /\ frame' = called
                   /\ alerts' = alerts
                   /\ resp' = IF ActivityLogResponseOk(body)
                              THEN [op |-> "logActivity", status |-> 200,
                                    body |-> body]
                              ELSE ServerError("logActivity")
              ELSE IF ~AlertInsertOk(alert)
              THEN \* db.commit() of create_alert raises
                   /\ frame' = [called EXCEPT !.alert_generated = TRUE,
                                    !.alert_level = Some(alert_level),
                                    !.raised = "create_alert"]
                   /\ alerts' = alerts
                   /\ resp' = ServerError("logActivity")
              ELSE /\ frame' = [called EXCEPT !.alert_generated = TRUE,
                                    !.alert_level = Some(alert_level)]
                   /\ alerts' = Append(alerts, alert)
                   /\ resp' = IF ActivityLogResponseOk(body)
                              THEN [op |-> "logActivity", status |-> 200,
                                    body |-> body]
                              ELSE ServerError("logActivity")
    /\ IF alerts' = alerts THEN scan' = scan ELSE scan' \in SortedScans(alerts')
    /\ UNCHANGED <<users, roles, role_policies, role_baselines, probe, procs>>

(***************************************************************************)
(* GET /getAlerts (main.py, get_alerts).                                   *)
(***************************************************************************)

\* AlertResponse(alert_id=, user_id=, risk_score=float(...), ...)
AlertResponse(alert) ==
    [alert_id |-> alert.alert_id, user_id |-> alert.user_id,
     risk_score |-> alert.risk_score, alert_level |-> alert.alert_level,
     reasons |-> alert.reasons, generated_at |-> alert.generated_at[1]]

\* A slip in the validation: alert_level is compared as it was sent, not
\* upper-cased.
get_alerts_as_sent(query) ==
    LET by_user == query.user_id # None /\ query.user_id[1] # ""
        by_level == query.alert_level # None /\ query.alert_level[1] # <<>>
        level == IF by_level THEN Str(query.alert_level[1]) ELSE ""
        Matches(i) ==
            /\ by_user => alerts[i].user_id = query.user_id[1]
            /\ by_level => alerts[i].alert_level = level
            /\ query.from_time # None
                   => alerts[i].generated_at[1] >= query.from_time[1]
            /\ query.to_time # None
                   => alerts[i].generated_at[1] <= query.to_time[1]
        selected == SelectSeq(scan, Matches)
    IN  IF by_level /\ level \notin {"LOW", "MEDIUM", "HIGH"}
        THEN [op |-> "getAlerts", status |-> 400,
              body |-> [detail |->
                           "Invalid alert_level. Must be LOW, MEDIUM, or HIGH"]]
        ELSE [op |-> "getAlerts", status |-> 200,
              body |-> [k \in 1..Len(selected) |->
                           AlertResponse(alerts[selected[k]])]]

\* A boundary slip: to_time is taken as an exclusive bound.
get_alerts_before(query) ==
    LET by_user == query.user_id # None /\ query.user_id[1] # ""
        by_level == query.alert_level # None /\ query.alert_level[1] # <<>>
        level == IF by_level THEN Str(Upper(query.alert_level[1])) ELSE ""
        Matches(i) ==
            /\ by_user => alerts[i].user_id = query.user_id[1]
            /\ by_level => alerts[i].alert_level = level
            /\ query.from_time # None
                   => alerts[i].generated_at[1] >= query.from_time[1]
            /\ query.to_time # None
                   => alerts[i].generated_at[1] < query.to_time[1]
        selected == SelectSeq(scan, Matches)
    IN  IF by_level /\ level \notin {"LOW", "MEDIUM", "HIGH"}
        THEN [op |-> "getAlerts", status |-> 400,
              body |-> [detail |->
                           "Invalid alert_level. Must be LOW, MEDIUM, or HIGH"]]
        ELSE [op |-> "getAlerts", status |-> 200,
              body |-> [k \in 1..Len(selected) |->
                           AlertResponse(alerts[selected[k]])]]

\* get_alerts: `if user_id:` and `if alert_level:` skip None and the empty
\* string; a datetime is never falsy
get_alerts(query) ==
    LET by_user == query.user_id # None /\ query.user_id[1] # ""
        by_level == query.alert_level # None /\ query.alert_level[1] # <<>>
        level == IF by_level THEN Str(Upper(query.alert_level[1])) ELSE ""
        Matches(i) ==
            /\ by_user => alerts[i].user_id = query.user_id[1]
            /\ by_level => alerts[i].alert_level = level
            /\ query.from_time # None
                   => alerts[i].generated_at[1] >= query.from_time[1]
            /\ query.to_time # None
                   => alerts[i].generated_at[1] <= query.to_time[1]
        selected == SelectSeq(scan, Matches)
    IN  IF by_level /\ level \notin {"LOW", "MEDIUM", "HIGH"}
        THEN [op |-> "getAlerts", status |-> 400,
              body |-> [detail |->
                           "Invalid alert_level. Must be LOW, MEDIUM, or HIGH"]]
        ELSE [op |-> "getAlerts", status |-> 200,
              body |-> [k \in 1..Len(selected) |->
                           AlertResponse(alerts[selected[k]])]]

\* A slip in the handler: the alerts it has read are deleted, as if the
\* query delivered them.
GetAlertsOnce(query) ==
    /\ request' = [op |-> "getAlerts", params |-> query]
    /\ resp' = get_alerts(query)
    /\ alerts' = IF resp'.status = 200 THEN <<>> ELSE alerts
    /\ scan' \in SortedScans(alerts')
    /\ UNCHANGED <<users, roles, role_policies, role_baselines, activity_logs,
                   frame, calls, probe, procs>>

GetAlerts(query) ==
    /\ request' = [op |-> "getAlerts", params |-> query]
    /\ resp' = get_alerts(query)
    /\ UNCHANGED <<db, scan, frame, calls, probe, procs>>

(***************************************************************************)
(* GET /getUserRisk/{user_id} (main.py, get_user_risk).                    *)
(***************************************************************************)

\* An ordering slip: the newest row is taken to be the one inserted last
\* (the greatest alert_id).
LatestAlertsById(rows, user_id) ==
    {i \in 1..Len(rows) :
        /\ rows[i].user_id = user_id
        /\ \A j \in 1..Len(rows) :
               rows[j].user_id = user_id => rows[j].alert_id <= rows[i].alert_id}

\* the rows of the user with the greatest generated_at:
\* order_by(desc(generated_at)).first() returns the one of them that the
\* store's order puts first
LatestAlerts(rows, user_id) ==
    {i \in 1..Len(rows) :
        /\ rows[i].user_id = user_id
        /\ \A j \in 1..Len(rows) :
               rows[j].user_id = user_id
                   => rows[j].generated_at[1] <= rows[i].generated_at[1]}

UserRiskResponse(user_id, role_name, score, level, time) ==
    [op |-> "getUserRisk", status |-> 200,
     body |-> [user_id |-> user_id, role |-> role_name,
               current_risk_score |-> score, risk_level |-> level,
               last_alert_time |-> time]]

\* A slip in the lookup: the missing users row is not looked at, and the
\* user is answered for like one without alerts.
get_user_risk_unchecked(user_id) ==
    LET user == get_user(user_id)
        role == IF user = None THEN None ELSE get_role(user[1].role_id)
        role_name == IF role # None THEN role[1] ELSE "unknown"
    IN  IF LatestAlerts(alerts, user_id) = {}
        THEN { UserRiskResponse(user_id, role_name, 0, "LOW", None) }
        ELSE { UserRiskResponse(user_id, role_name, alerts[i].risk_score,
                   alerts[i].alert_level, alerts[i].generated_at) :
               i \in LatestAlerts(alerts, user_id) }

\* get_user_risk: the responses the handler may give in the current state
get_user_risk(user_id) ==
    LET user == get_user(user_id)
        role == IF user = None THEN None ELSE get_role(user[1].role_id)
        role_name == IF role # None THEN role[1] ELSE "unknown"
    IN  IF user = None
        THEN { [op |-> "getUserRisk", status |-> 404,
                body |-> [detail |-> "User '" \o user_id \o "' not found"]] }
        ELSE IF LatestAlerts(alerts, user_id) = {}
        THEN { UserRiskResponse(user_id, role_name, 0, "LOW", None) }
        ELSE { UserRiskResponse(user_id, role_name, alerts[i].risk_score,
                   alerts[i].alert_level, alerts[i].generated_at) :
               i \in {l \in LatestAlerts(alerts, user_id) :
                         \A m \in LatestAlerts(alerts, user_id) :
                             ScanPos(l) <= ScanPos(m)} }

GetUserRisk(user_id) ==
    /\ request' = [op |-> "getUserRisk", params |-> [user_id |-> user_id]]
    /\ resp' \in get_user_risk(user_id)
    /\ UNCHANGED <<db, scan, frame, calls, probe, procs>>

(***************************************************************************)
(* The checks of RiskDetector called on their own, as any caller holding  *)
(* a RiskDetector may call them (get_risk_detector).                       *)
(***************************************************************************)

\* role_baseline arguments: no row, the rows of the table, a row whose
\* averages are 0, and a row of a night shift (avg 0.70 records, 22h to 6h)
ProbeBaselines ==
    {None} \cup {Some(role_baselines[r]) : r \in DOMAIN role_baselines}
        \cup {Some(Baseline(0, 0, 9, 17)), Some(Baseline(70, 5, 22, 6))}

\* records_accessed arguments: around the tier bounds of the averages
\* 0.70 and 5.0, and far above them
ProbeRecordCounts == (0..12) \cup {25, 26, 50, 51, 5200}

\* access_time arguments: every hour of a day, on the hour and one minute
\* before the next
ProbeTimes ==
    {DateTime(2, h, 0) : h \in 0..23} \cup {DateTime(2, h, 59) : h \in 0..23}

NoProbe ==
    [rule |-> "none", role_baseline |-> None, records_accessed |-> 0,
     access_time |-> 0, result |-> <<0, "">>]

CheckExcessiveRecords(role_baseline, records_accessed) ==
    /\ probe' = [rule |-> "check_excessive_records",
                 role_baseline |-> role_baseline,
                 records_accessed |-> records_accessed,
                 access_time |-> 0,
                 result |-> check_excessive_records(role_baseline,
                                                    records_accessed)]
    /\ UNCHANGED <<db, scan, frame, request, resp, calls, procs>>

CheckOffHourAccess(role_baseline, access_time) ==
    /\ probe' = [rule |-> "check_off_hour_access",
                 role_baseline |-> role_baseline,
                 records_accessed |-> 0,
                 access_time |-> access_time,
                 result |-> check_off_hour_access(role_baseline, access_time)]
    /\ UNCHANGED <<db, scan, frame, request, resp, calls, procs>>

\* the rows the count query of check_access_frequency finds in
\* activity_logs: the first n rows of History4, which give intern001 zero
\* to four rows on day 2
ProbeLogs == {SubSeq(History4, 1, n) : n \in 0..Len(History4)}

\* role_baseline arguments of check_access_frequency: none, and daily
\* averages from 0 to 3
ProbeFrequencyBaselines ==
    {None} \cup {Some(Baseline(500, avg, 9, 17)) : avg \in 0..3}

CheckAccessFrequency(logs, user_id, role_baseline, access_time) ==
    /\ probe' = [rule |-> "check_access_frequency",
                 logs |-> logs,
                 user_id |-> user_id,
                 role_baseline |-> role_baseline,
                 access_time |-> access_time,
                 result |-> check_access_frequency(logs, user_id,
                                                   role_baseline, access_time)]
    /\ UNCHANGED <<db, scan, frame, request, resp, calls, procs>>

\* A slip in the scoring: the event is recorded by the function that scores
\* it.
CalculateRiskScoreLogging(activity) ==
    /\ probe' = [rule |-> "calculate_risk_score",
                 activity |-> activity,
                 result |-> calculate_risk_score(activity_logs,
                                activity.user_id, activity.action,
                                activity.resource, activity.records_accessed,
                                activity.access_time)]
    /\ activity_logs' =
           IF ActivityLogInsertOk(NewActivityLog(activity_logs, activity))
           THEN Append(activity_logs, NewActivityLog(activity_logs, activity))
           ELSE activity_logs
    /\ UNCHANGED <<users, roles, role_policies, role_baselines, alerts, scan,
                   frame, request, resp, calls, procs>>

\* calculate_risk_score called on its own, over the tables of the state
CalculateRiskScore(activity) ==
    /\ probe' = [rule |-> "calculate_risk_score",
                 activity |-> activity,
                 result |-> calculate_risk_score(activity_logs,
                                activity.user_id, activity.action,
                                activity.resource, activity.records_accessed,
                                activity.access_time)]
    /\ UNCHANGED <<db, scan, frame, request, resp, calls, procs>>

(***************************************************************************)
(* log_activity run by concurrent workers.  The handler is a plain def,    *)
(* which FastAPI runs in a thread pool, and get_db gives every request a   *)
(* session of its own.  A worker's steps on the store are the reads of     *)
(* calculate_risk_score (only activity_logs is ever written, so the count  *)
(* query is the read that matters: it sees the rows committed when it      *)
(* runs), the insert-and-commit of create_activity_log and the             *)
(* insert-and-commit of create_alert.                                      *)
(***************************************************************************)
Procs == {1, 2}

\* the events the concurrent workers are given
ConcurrentRequests ==
    {activity \in ActivityLogRequest :
        /\ activity.user_id \in {"intern001", "staff001"}
        /\ activity.action = "READ"
        /\ activity.records_accessed = 3}

IdleProc ==
    [pc |-> "idle", activity |-> None, access_count |-> None, risk_score |-> 0,
     reasons |-> <<>>, log_id |-> None, alert_generated |-> FALSE,
     alert_level |-> None, raised |-> "none", resp |-> NoResponse]

\* the request reaches the handler
Receive(p, activity) ==
    /\ procs[p].pc = "idle"
    /\ procs' = [procs EXCEPT ![p] =
                     [IdleProc EXCEPT !.pc = "score", !.activity = activity]]
    /\ UNCHANGED <<db, scan, frame, request, resp, calls, probe>>

\* the rows the other workers have added to their sessions and not yet
\* committed
Uncommitted(p) ==
    {q \in Procs \ {p} : procs[q].pc = "log"}

\* A session slip: the workers share one session, so the count query of one
\* worker also sees the rows the others have scored and not yet committed.
ScoreShared(p) ==
    /\ procs[p].pc = "score"
    /\ LET activity == procs[p].activity
           pending == IF Uncommitted(p) = {} THEN <<>>
                      ELSE << NewActivityLog(activity_logs,
                                 procs[CHOOSE q \in Uncommitted(p) : TRUE]
                                     .activity) >>
           logs == activity_logs \o pending
           scored == calculate_risk_score(logs, activity.user_id,
                         activity.action, activity.resource,
                         activity.records_accessed, activity.access_time)
           user == get_user(activity.user_id)
           counted == /\ user # None
                      /\ user[1].status = "active"
                      /\ get_role_baseline(user[1].role_id) # None
       IN  procs' = [procs EXCEPT ![p] =
                        [@ EXCEPT !.pc = "log",
                                  !.access_count =
                                      IF counted
                                      THEN Some(AccessCount(logs,
                                               activity.user_id,
                                               activity.access_time))
                                      ELSE None,
                                  !.risk_score = scored[1],
                                  !.reasons = scored[2]]]
    /\ UNCHANGED <<db, scan, frame, request, resp, calls, probe>>

\* calculate_risk_score in the worker's session: access_count is the local
\* of check_access_frequency, set when the count query is run
Score(p) ==
    /\ procs[p].pc = "score"
    /\ LET activity == procs[p].activity
           scored == calculate_risk_score(activity_logs, activity.user_id,
                         activity.action, activity.resource,
                         activity.records_accessed, activity.access_time)
           user == get_user(activity.user_id)
           counted == /\ user # None
                      /\ user[1].status = "active"
                      /\ get_role_baseline(user[1].role_id) # None
       IN  procs' = [procs EXCEPT ![p] =
                        [@ EXCEPT !.pc = "log",
                                  !.access_count =
                                      IF counted
                                      THEN Some(AccessCount(activity_logs,
                                               activity.user_id,
                                               activity.access_time))
                                      ELSE None,
                                  !.risk_score = scored[1],
                                  !.reasons = scored[2]]]
    /\ UNCHANGED <<db, scan, frame, request, resp, calls, probe>>

\* create_activity_log, then the alert decision of lines 136 to 141 and,
\* when no alert is due, the response
CreateActivityLog(p) ==
    /\ procs[p].pc = "log"
    /\ LET activity == procs[p].activity
           activity_log == NewActivityLog(activity_logs, activity)
           risk_score == procs[p].risk_score
           body == [status |-> "processed", risk_score |-> risk_score,
                    alert_generated |-> FALSE]
       IN  IF ~ActivityLogInsertOk(activity_log)
           THEN /\ procs' = [procs EXCEPT ![p] =
                                [@ EXCEPT !.pc = "done",
                                          !.raised = "create_activity_log",
                                          !.resp = ServerError("logActivity")]]
                /\ UNCHANGED activity_logs
           ELSE /\ activity_logs' = Append(activity_logs, activity_log)
                /\ procs' = [procs EXCEPT ![p] =
                       IF should_generate_alert(risk_score)
                       THEN [@ EXCEPT !.pc = "alert",
                                      !.log_id = Some(activity_log.log_id),
                                      !.alert_generated = TRUE,
                                      !.alert_level =
                                          Some(get_alert_level(risk_score))]
                       ELSE [@ EXCEPT !.pc = "done",
                                      !.log_id = Some(activity_log.log_id),
                                      !.resp =
                                          IF ActivityLogResponseOk(body)
                                          THEN [op |-> "logActivity",
                                                status |-> 200, body |-> body]
                                          ELSE ServerError("logActivity")]]
    /\ UNCHANGED <<users, roles, role_policies, role_baselines, alerts, scan,
                   frame, request, resp, calls, probe>>

\* create_alert and the response
CreateAlert(p) ==
    /\ procs[p].pc = "alert"
    /\ LET alert == NewAlert(alerts, procs[p].activity.user_id,
                             procs[p].risk_score, procs[p].alert_level[1],
                             procs[p].reasons)
           body == [status |-> "processed", risk_score |-> procs[p].risk_score,
                    alert_generated |-> TRUE]
       IN  IF ~AlertInsertOk(alert)
           THEN /\ procs' = [procs EXCEPT ![p] =
                                [@ EXCEPT !.pc = "done",
                                          !.raised = "create_alert",
                                          !.resp = ServerError("logActivity")]]
                /\ UNCHANGED <<alerts, scan>>
           ELSE /\ alerts' = Append(alerts, alert)
                /\ scan' \in SortedScans(alerts')
                /\ procs' = [procs EXCEPT ![p] =
                                [@ EXCEPT !.pc = "done",
                                          !.resp =
                                              IF ActivityLogResponseOk(body)
                                              THEN [op |-> "logActivity",
                                                    status |-> 200,
                                                    body |-> body]
                                              ELSE ServerError("logActivity")]]
    /\ UNCHANGED <<users, roles, role_policies, role_baselines, activity_logs,
                   frame, request, resp, calls, probe>>

(***************************************************************************)
(* The system.                                                             *)
(***************************************************************************)
Init ==
    /\ users = SeedUsers
    /\ roles = SeedRoles
    /\ role_policies = SeedPolicies
    /\ role_baselines = SeedBaselines
    /\ \E store \in PriorStores :
           /\ activity_logs = store.logs
           /\ alerts = store.alerts
    /\ scan \in SortedScans(alerts)
    /\ frame = NoFrame
    /\ request = NoRequest
    /\ resp = NoResponse
    /\ calls = 0
    /\ probe = NoProbe
    /\ procs = [p \in Procs |-> IdleProc]

Next ==
    \/ \E activity \in ActivityLogRequest : LogActivity(activity)
    \/ \E user_id \in QueryUserIds : GetUserRisk(user_id)

Spec == Init /\ [][Next]_vars

\* The two queries, with ingestion of a few events between them.
QueryNext ==
    \/ \E activity \in IngestSample : LogActivity(activity)
    \/ \E query \in AlertsQuery : GetAlerts(query)
    \/ \E user_id \in QueryUserIds : GetUserRisk(user_id)

QuerySpec == Init /\ [][QueryNext]_vars

\* The checks called on their own.
RuleNext ==
    \/ \E role_baseline \in ProbeBaselines, n \in ProbeRecordCounts :
           CheckExcessiveRecords(role_baseline, n)
    \/ \E role_baseline \in ProbeBaselines, t \in ProbeTimes :
           CheckOffHourAccess(role_baseline, t)
    \/ \E logs \in ProbeLogs, user_id \in QueryUserIds \cup {"intern001"},
          role_baseline \in ProbeFrequencyBaselines, t \in AccessTimes :
           CheckAccessFrequency(logs, user_id, role_baseline, t)
    \/ \E activity \in ActivityLogRequest : CalculateRiskScore(activity)

RuleSpec == Init /\ [][RuleNext]_vars

\* Two workers, each running log_activity once.
ConcurrentNext ==
    \E p \in Procs :
        \/ \E activity \in ConcurrentRequests : Receive(p, activity)
        \/ Score(p)
        \/ CreateActivityLog(p)
        \/ CreateAlert(p)

ConcurrentSpec == Init /\ [][ConcurrentNext]_vars

(***************************************************************************)
(* Properties.                                                             *)
(***************************************************************************)

\* the latest response answers the latest log_activity call
LogResponse == resp.op = "logActivity" /\ frame.called

\* a step of log_activity
LogStep == calls' # calls

\* C1: the risk score calculate_risk_score computes in a log_activity call
\* is an integer from 0 to 100, and so is the risk_score of every response
\* log_activity returns, which is the computed one.
C1_ScoreInRange ==
    /\ frame.called => frame.risk_score \in 0..100
    /\ (LogResponse /\ resp.status = 200)
           => /\ resp.body.risk_score \in 0..100
              /\ resp.body.risk_score = frame.risk_score

\* a second call, on top of earlier history, answered with a score that two
\* rules contributed to
C1_Witness ==
    /\ LogResponse /\ resp.status = 200
    /\ calls = 2 /\ Len(activity_logs) > 2
    /\ resp.body.risk_score = 65

\* C2: a log_activity call adds exactly one alert, for the event's user,
\* when the computed score is at least the threshold and none otherwise,
\* and answers with alert_generated true exactly when it added the alert.
C2_AlertIffThreshold ==
    [][LogStep =>
        /\ should_generate_alert(frame'.risk_score)
               => /\ Len(alerts') = Len(alerts) + 1
                  /\ SubSeq(alerts', 1, Len(alerts)) = alerts
                  /\ alerts'[Len(alerts')].user_id = frame'.activity.user_id
        /\ ~should_generate_alert(frame'.risk_score) => alerts' = alerts
        /\ resp'.status = 200
        /\ resp'.body.alert_generated = (alerts' # alerts)]_vars

\* C3: log_activity for a user_id that is not in users answers 200 with
\* risk_score 100 and alert_generated true, and the reasons of the alert
\* include "User not found".
C3_UnknownUser ==
    (LogResponse /\ frame.activity.user_id \notin DOMAIN users)
        => /\ resp.status = 200
           /\ resp.body.risk_score = 100
           /\ resp.body.alert_generated
           /\ \E i \in 1..Len(frame.reasons) : frame.reasons[i] = "User not found"

\* the role holds a grant for exactly (action, resource)
ExactGrant(role_id, action, resource) ==
    Policy(role_id, action, resource) \in role_policies

\* the role holds a grant for the action and the wildcard resource
WildcardGrant(role_id, action) ==
    Policy(role_id, action, "*") \in role_policies

\* the call of the frame went through the four rules
Scored(f) ==
    /\ f.called
    /\ f.activity.user_id \in DOMAIN users
    /\ users[f.activity.user_id].status = "active"

HasReason(f, reason) == \E i \in 1..Len(f.reasons) : f.reasons[i] = reason

\* C4: the Permission Check reports a violation for (role, action, resource)
\* if and only if the role holds neither the exact grant nor the grant of
\* that action on the wildcard resource: in every scored call the reasons
\* hold the violation's reason exactly in that case.
C4_PermissionCheck ==
    Scored(frame) =>
           LET role_id == users[frame.activity.user_id].role_id
               action == frame.activity.action
               resource == frame.activity.resource
           IN  HasReason(frame, "Unauthorized " \o action \o " access to " \o resource)
                   <=> ~(ExactGrant(role_id, action, resource)
                            \/ WildcardGrant(role_id, action))

\* C5: a log_activity call appends exactly one row to activity_logs, with
\* the fields of the call, whatever the score and the alert, and no step
\* changes or removes a row already there.
C5_OneEventPerCall ==
    [][/\ Len(activity_logs') >= Len(activity_logs)
       /\ SubSeq(activity_logs', 1, Len(activity_logs)) = activity_logs
       /\ LogStep =>
              /\ Len(activity_logs') = Len(activity_logs) + 1
              /\ LET row == activity_logs'[Len(activity_logs')]
                     activity == frame'.activity
                 IN  /\ row.user_id = activity.user_id
                     /\ row.action = activity.action
                     /\ row.resource = activity.resource
                     /\ row.records_accessed = activity.records_accessed
                     /\ row.access_time = activity.access_time
                     /\ row.source_ip = activity.source_ip]_vars

\* C6: calculate_risk_score returns exactly (100, ["User not found"]) for a
\* user_id that is not in users and exactly (100, ["User account is
\* <status>"]) for a user whose status is not "active", whatever the other
\* fields of the event and the rows of activity_logs.
C6_FailSafe ==
    frame.called =>
        LET user_id == frame.activity.user_id
        IN  /\ user_id \notin DOMAIN users
                  => /\ frame.risk_score = 100
                     /\ frame.reasons = <<"User not found">>
            /\ (user_id \in DOMAIN users /\ users[user_id].status # "active")
                  => /\ frame.risk_score = 100
                     /\ frame.reasons
                            = <<"User account is " \o users[user_id].status>>

\* an inactive user's event that every rule would have flagged, on top of
\* earlier history
C6_Witness ==
    /\ frame.called
    /\ frame.activity.user_id = "former001"
    /\ frame.activity.resource = "Finance_Reports"
    /\ frame.activity.records_accessed = 5200
    /\ HourOf(frame.activity.access_time) = 22
    /\ Len(activity_logs) > 5
    /\ frame.reasons = <<"User account is inactive">>

\* the level the published bands give a score from 70 to 100
PublishedLevel(score) ==
    IF score <= 79 THEN "LOW" ELSE IF score <= 89 THEN "MEDIUM" ELSE "HIGH"

\* C7: get_alert_level maps every score from 70 to 100 to the level of the
\* published bands (LOW 70..79, MEDIUM 80..89, HIGH 90..100), and the level
\* a log_activity call computes for its score is that one.
C7_AlertLevelBands ==
    /\ \A score \in 70..100 : get_alert_level(score) = PublishedLevel(score)
    /\ (frame.called /\ frame.alert_level # None)
           => /\ frame.risk_score \in 70..100
              /\ frame.alert_level = Some(PublishedLevel(frame.risk_score))

\* a call whose score sits on the lower bound of a band
C7_Witness ==
    /\ frame.called
    /\ frame.risk_score = 80
    /\ frame.alert_level = Some("MEDIUM")

\* the alerts rows of a user
AlertsOf(user_id) == {i \in 1..Len(alerts) : alerts[i].user_id = user_id}

\* the answer is the low-risk one: (0, "LOW", no time)
LowRisk(body) ==
    /\ body.current_risk_score = 0
    /\ body.risk_level = "LOW"
    /\ body.last_alert_time = None

\* the answer carries the score, level and time of a row of the user that no
\* other row of the user is newer than
PostureOfNewest(body) ==
    \E i \in AlertsOf(body.user_id) :
        /\ \A j \in AlertsOf(body.user_id) :
               alerts[j].generated_at[1] <= alerts[i].generated_at[1]
        /\ body.current_risk_score = alerts[i].risk_score
        /\ body.risk_level = alerts[i].alert_level
        /\ body.last_alert_time = alerts[i].generated_at

\* C8: in every reachable state get_user_risk answers, for a user in users,
\* with the score, level and generation time of that user's newest alert
\* (by generated_at), and with (0, "LOW", no time) exactly when the user has
\* no alert; the answer held by the client is one of these; and a
\* log_activity call that adds no alert changes no user's answer.
C8_UserRiskPosture ==
    /\ [](\A user_id \in DOMAIN users : \A r \in get_user_risk(user_id) :
             /\ r.status = 200
             /\ r.body.user_id = user_id
             /\ LowRisk(r.body) <=> AlertsOf(user_id) = {}
             /\ AlertsOf(user_id) # {} => PostureOfNewest(r.body))
    /\ []((resp.op = "getUserRisk" /\ resp.status = 200)
             => /\ resp.body.user_id \in DOMAIN users
                /\ resp \in get_user_risk(resp.body.user_id))
    /\ [][(LogStep /\ alerts' = alerts)
             => \A user_id \in DOMAIN users :
                    get_user_risk(user_id)' = get_user_risk(user_id)]_vars

\* after two ingestions, the answer for a user whose newest alert is not the
\* one inserted last
C8_Witness ==
    /\ resp.op = "getUserRisk" /\ resp.status = 200
    /\ resp.body.user_id = "staff001"
    /\ Len(alerts) = 2
    /\ resp.body.current_risk_score = 92
    /\ resp.body.risk_level = "HIGH"
    /\ resp.body.last_alert_time = Some(DateTime(1, 22, 0))
    /\ calls = 2

\* the precondition of C9 on an event and the rows recorded before it
ScenarioB(activity, logs) ==
    /\ activity.user_id \in DOMAIN users
    /\ users[activity.user_id].status = "active"
    /\ LET role_id == users[activity.user_id].role_id
       IN  /\ ~ExactGrant(role_id, activity.action, activity.resource)
           /\ ~WildcardGrant(role_id, activity.action)
           /\ role_id \in DOMAIN role_baselines
           /\ LET b == role_baselines[role_id]
                  hour == HourOf(activity.access_time)
              IN  /\ b.avg_records_per_access > 0
                  /\ activity.records_accessed * 100
                         > 10 * b.avg_records_per_access
                  /\ \/ b.normal_start_hour - hour >= 4
                     \/ hour - b.normal_end_hour >= 4
                  /\ check_access_frequency(logs, activity.user_id, Some(b),
                                            activity.access_time)[1] = 0

\* C9: for an active user whose role has no grant for (action, resource),
\* with more than 10 times the baseline's records, an hour at least 4 hours
\* outside the normal hours and no Frequency contribution, log_activity
\* answers with risk_score 85 and alert_generated, and adds a MEDIUM alert.
C9_ScenarioB ==
    [][(LogStep /\ ScenarioB(frame'.activity, activity_logs))
          => /\ resp'.status = 200
             /\ resp'.body.risk_score = 85
             /\ resp'.body.alert_generated
             /\ Len(alerts') = Len(alerts) + 1
             /\ alerts'[Len(alerts')].user_id = frame'.activity.user_id
             /\ alerts'[Len(alerts')].alert_level = "MEDIUM"]_vars

\* the precondition of C10 on an event and the rows recorded before it; a
\* role without a baseline has no average to compare with
ScenarioC(activity, logs) ==
    /\ activity.user_id \in DOMAIN users
    /\ users[activity.user_id].status = "active"
    /\ LET role_id == users[activity.user_id].role_id
       IN  /\ ExactGrant(role_id, activity.action, activity.resource)
           /\ role_id \in DOMAIN role_baselines
           /\ LET b == role_baselines[role_id]
                  hour == HourOf(activity.access_time)
              IN  /\ activity.records_accessed * 100
                         <= 2 * b.avg_records_per_access
                  /\ b.normal_start_hour <= hour /\ hour <= b.normal_end_hour
                  /\ 2 * AccessCount(logs, activity.user_id, activity.access_time)
                         <= 3 * b.avg_access_per_day

C12_OffHoursIff ==
    (probe.rule = "check_off_hour_access" /\ probe.role_baseline # None)
        => LET b == probe.role_baseline[1]
               hour == (probe.access_time \div 60) % 24
               within == b.normal_start_hour <= hour /\ hour <= b.normal_end_hour
           IN  /\ within <=> probe.result[1] = 0
               /\ ~within => probe.result[1] > 0

\* 17:59 under normal hours 9 to 17: the last minute of the range
C12_Witness ==
    /\ probe.rule = "check_off_hour_access"
    /\ probe.role_baseline = Some(Baseline(500, 20, 9, 17))
    /\ probe.access_time = DateTime(2, 17, 59)
    /\ probe.result = <<0, "">>

\* C13: for one baseline, check_excessive_records never contributes less
\* for more records: of two calls with the same baseline, the one with the
\* greater records_accessed contributes at least as much.
C13_VolumeMonotonic ==
    [][(/\ probe.rule = "check_excessive_records"
        /\ probe'.rule = "check_excessive_records"
        /\ probe'.role_baseline = probe.role_baseline
        /\ probe.records_accessed <= probe'.records_accessed)
          => probe.result[1] <= probe'.result[1]]_vars

\* a call in the middle tier: 26 records against an average of 5.0
C13_Witness ==
    /\ probe.rule = "check_excessive_records"
    /\ probe.role_baseline = Some(Baseline(500, 20, 9, 17))
    /\ probe.records_accessed = 26
    /\ probe.result[1] = 16

\* C14: in every reachable state get_user_risk answers 404 for a user_id
\* that is not in users, log_activity calls with that user_id having been
\* made or not, and the answer a client got for such a user_id is that 404,
\* never the answer (0, "LOW", no time).
C14_UnknownUserNotFound ==
    /\ \A user_id \in QueryUserIds \cup UserIds :
           user_id \notin DOMAIN users
               => \A r \in get_user_risk(user_id) : r.status = 404
    /\ (request.op = "getUserRisk" /\ request.params.user_id \notin DOMAIN users)
           => /\ resp.op = "getUserRisk"
              /\ resp.status = 404
              /\ resp.body = [detail |-> "User '" \o request.params.user_id
                                            \o "' not found"]

\* the query for a user_id that two log_activity calls were made with
C14_Witness ==
    /\ request.op = "getUserRisk" /\ request.params.user_id = "ghost001"
    /\ resp.status = 404
    /\ calls = 2
    /\ frame.activity.user_id = "ghost001"
    /\ "ghost001" \notin DOMAIN users

\* C15: every row of alerts has a non-empty reasons string, and every Alert
\* that create_alert builds in a log_activity call is built from at least
\* one reason, each a non-empty string, so that its reasons string is not
\* empty.
C15_AlertReasons ==
    /\ \A i \in 1..Len(alerts) : alerts[i].reasons # ""
    /\ (frame.called /\ frame.alert_generated)
           => /\ Len(frame.reasons) >= 1
              /\ \A k \in 1..Len(frame.reasons) : frame.reasons[k] # ""
              /\ NewAlert(alerts, frame.activity.user_id, frame.risk_score,
                          frame.alert_level[1], frame.reasons).reasons # ""

\* create_alert called with the three reasons of an event that three rules
\* flagged
C15_Witness ==
    /\ frame.called /\ frame.alert_generated
    /\ frame.raised = "create_alert"
    /\ frame.risk_score = 85
    /\ Len(frame.reasons) = 3

\* the latest response answers a get_alerts call
AlertsResponse == request.op = "getAlerts" /\ resp.op = "getAlerts"

\* LOW, MEDIUM or HIGH in some letter case
ValidLevel(chars) == Str(Upper(chars)) \in {"LOW", "MEDIUM", "HIGH"}

\* the call was rejected with a client error and no alert was returned
Rejected == resp.status = 400 /\ DOMAIN resp.body = {"detail"}

\* the call was accepted and its answer is filtered on the level: every
\* alert of the answer has the level, and with no other parameter the
\* answer holds every alert of that level
FilteredOn(level) ==
    /\ resp.status = 200
    /\ \A k \in 1..Len(resp.body) : resp.body[k].alert_level = level
    /\ (request.params.user_id = None /\ request.params.from_time = None
            /\ request.params.to_time = None)
           => {resp.body[k].alert_id : k \in 1..Len(resp.body)}
                  = {alerts[i].alert_id :
                        i \in {j \in 1..Len(alerts) : alerts[j].alert_level = level}}

Matching(query, given) ==
    {i \in 1..Len(alerts) :
        /\ given.user_id => alerts[i].user_id = query.user_id[1]
        /\ given.alert_level
               => alerts[i].alert_level = Str(Upper(query.alert_level[1]))
        /\ given.from_time => alerts[i].generated_at[1] >= query.from_time[1]
        /\ given.to_time => alerts[i].generated_at[1] <= query.to_time[1]}

\* the answer holds the rows `rows` of alerts, each once and with its own
\* fields, newest first
AnswerIs(rows) ==
    /\ Len(resp.body) = Cardinality(rows)
    /\ \A i \in rows : \E k \in 1..Len(resp.body) :
           /\ resp.body[k].alert_id = alerts[i].alert_id
           /\ resp.body[k].user_id = alerts[i].user_id
           /\ resp.body[k].risk_score = alerts[i].risk_score
           /\ resp.body[k].alert_level = alerts[i].alert_level
           /\ resp.body[k].reasons = alerts[i].reasons
           /\ resp.body[k].generated_at = alerts[i].generated_at[1]
    /\ \A k, l \in 1..Len(resp.body) :
           k < l => resp.body[k].generated_at >= resp.body[l].generated_at

QueryStep == ~LogStep /\ request'.op \in {"getAlerts", "getUserRisk"}

\* C18: a get_alerts or get_user_risk call changes no table, nor the order
\* the store returns the alerts in; its answer is the one answer the handler
\* has for these parameters in the state it was made in (and, for
\* get_user_risk, in the state it leaves), and the same call made again
\* right after it gets the same answer.
C18_QueriesIdempotent ==
    [][QueryStep =>
        /\ db' = db
        /\ scan' = scan
        /\ request'.op = "getAlerts"
               => \A query \in {request'.params} : resp' = get_alerts(query)
        /\ request'.op = "getUserRisk"
               => \A user_id \in {request'.params.user_id} :
                      /\ get_user_risk(user_id) = {resp'}
                      /\ get_user_risk(user_id)' = {resp'}
        /\ request' = request => resp' = resp]_vars

\* get_user_risk answered for a user whose two newest alerts carry the same
\* generated_at, after an ingestion
C18_Witness ==
    /\ request.op = "getUserRisk" /\ request.params.user_id = "staff001"
    /\ resp.status = 200
    /\ Len(alerts) = 4
    /\ resp.body.current_risk_score = 85
    /\ calls = 1

\* the rows of `logs` of the user whose access time is on the day of t
PriorSameDay(logs, user_id, t) ==
    {i \in 1..Len(logs) :
        /\ logs[i].user_id = user_id
        /\ logs[i].access_time \div MinutesPerDay = t \div MinutesPerDay}

\* the reason the Frequency Check gives for a count of n against a daily
\* average avg, "" when it contributes nothing
FrequencyReason(n, avg) ==
    LET tail == " access frequency (" \o ToString(n) \o " today)"
    IN  IF avg > 0 /\ n > 3 * avg THEN "Extremely high" \o tail
        ELSE IF avg > 0 /\ n > 2 * avg THEN "Elevated" \o tail
        ELSE IF avg > 0 /\ 2 * n > 3 * avg THEN "Increased" \o tail
        ELSE ""

\* C19: in a log_activity call that runs the four rules for a user whose
\* role has a baseline, the count the Frequency Check reports and scores is
\* the number of rows of this user recorded before the call on the day of
\* the event, in [midnight, next midnight): not the event itself, which is
\* appended after the score is computed, nor rows of other users or days.
C19_FrequencyCount ==
    [][(/\ LogStep
        /\ Scored(frame')
        /\ users[frame'.activity.user_id].role_id \in DOMAIN role_baselines)
          => LET activity == frame'.activity
                 avg == role_baselines[users[activity.user_id].role_id]
                            .avg_access_per_day
                 n == Cardinality(PriorSameDay(activity_logs, activity.user_id,
                                               activity.access_time))
                 expected == FrequencyReason(n, avg)
                 counts == 0..(Len(activity_logs) + 1)
             IN  /\ expected # "" => HasReason(frame', expected)
                 /\ \A k \in counts :
                        (FrequencyReason(k, avg) # ""
                            /\ HasReason(frame', FrequencyReason(k, avg)))
                            => k = n
                 /\ Len(activity_logs') = Len(activity_logs) + 1
                 /\ SubSeq(activity_logs', 1, Len(activity_logs)) = activity_logs
                 /\ activity_logs'[Len(activity_logs')].access_time
                        = activity.access_time]_vars

\* the second call of the day for a user with four rows of that day, one at
\* midnight sharp, among rows of the day before, of the next midnight and of
\* another user: the first call saw 4, this one sees 5
C19_Witness ==
    /\ LogResponse /\ calls = 2
    /\ frame.activity.user_id = "intern001"
    /\ Len(activity_logs) = 9
    /\ HasReason(frame, "Extremely high access frequency (5 today)")
    /\ Cardinality(PriorSameDay(activity_logs, "intern001",
                                frame.activity.access_time)) = 6

\* both workers have answered calls for one user, a user of the users table
BothDone ==
    /\ \A p \in Procs : procs[p].pc = "done"
    /\ \A p, q \in Procs : procs[p].activity.user_id = procs[q].activity.user_id
    /\ \A p \in Procs : procs[p].activity.user_id \in DOMAIN users

\* C20: whatever the interleaving of two log_activity calls, the count a
\* call's Frequency Check takes is the number of the user's rows of the
\* event's day that are committed when it reads, the other call's row only
\* if that one is committed by then, and the Frequency reason of the call is
\* the one of that count; once both calls for one user are done, each has
\* its own row in activity_logs, and each call's alert decision is
\* risk_score >= RISK_SCORE_THRESHOLD on the score it computed itself.
C20_ConcurrentCalls ==
    /\ [][\A p \in Procs :
             (procs[p].pc = "score" /\ procs'[p].pc = "log"
                 /\ procs'[p].access_count # None)
                 => LET activity == procs[p].activity
                        avg == role_baselines[users[activity.user_id].role_id]
                                   .avg_access_per_day
                        n == Cardinality(PriorSameDay(activity_logs,
                                 activity.user_id, activity.access_time))
                    IN  /\ procs'[p].access_count = Some(n)
                        /\ FrequencyReason(n, avg) # ""
                               => HasReason(procs'[p], FrequencyReason(n, avg))
                        /\ \A k \in 0..(Len(activity_logs) + 2) :
                               (FrequencyReason(k, avg) # ""
                                   /\ HasReason(procs'[p], FrequencyReason(k, avg)))
                                   => k = n]_vars
    /\ [](BothDone
             => /\ \A p \in Procs :
                       /\ procs[p].log_id # None
                       /\ procs[p].log_id[1] \in 1..Len(activity_logs)
                       /\ activity_logs[procs[p].log_id[1]]
                              = [NewActivityLog(activity_logs, procs[p].activity)
                                    EXCEPT !.log_id = procs[p].log_id[1]]
                       /\ procs[p].alert_generated
                              <=> procs[p].risk_score >= RISK_SCORE_THRESHOLD
                /\ \A p, q \in Procs :
                       p # q => procs[p].log_id # procs[q].log_id)

\* two calls for the same user and time, each scored before the other's row
\* was committed: both counted the 2 earlier rows of the day, neither the
\* other's, both scored 72 and decided to alert, and both rows are recorded
C20_Witness ==
    /\ BothDone
    /\ \A p \in Procs :
           /\ procs[p].activity.user_id = "intern001"
           /\ procs[p].access_count = Some(2)
           /\ procs[p].risk_score = 72
           /\ procs[p].alert_generated
    /\ Cardinality(PriorSameDay(activity_logs, "intern001",
                                procs[1].activity.access_time)) = 4

(***************************************************************************)
(* C21: the two writes of log_activity are two commits, the activity row   *)
(* first.                                                                  *)
(***************************************************************************)

\* the activity row the call that has just run hands to create_activity_log
CallRow == NewActivityLog(activity_logs, request'.params)

\* the commit of create_activity_log raises in the call that has just run
ActivityWriteFails == LogStep /\ ~ActivityLogInsertOk(CallRow)

\* the call that has just run reaches create_alert and its commit raises
AlertWriteFails ==
    /\ LogStep
    /\ ActivityLogInsertOk(CallRow)
    /\ should_generate_alert(frame'.risk_score)
    /\ ~AlertInsertOk(NewAlert(alerts, request'.params.user_id,
                               frame'.risk_score,
                               get_alert_level(frame'.risk_score),
                               frame'.reasons))

\* C21: in logActivity the activity event is committed before the alert
\* write is attempted: when the alert write fails the activity event of the
\* call stays recorded and the caller is told of the failure (a 500), and
\* when the activity write fails the call writes no alert (it does not
\* reach the alert branch) and no activity row.
C21_ActivityBeforeAlert ==
    [][/\ AlertWriteFails =>
              /\ activity_logs' = Append(activity_logs, CallRow)
              /\ alerts' = alerts
              /\ frame'.raised = "create_alert"
              /\ resp' = ServerError("logActivity")
       /\ ActivityWriteFails =>
              /\ activity_logs' = activity_logs
              /\ alerts' = alerts
              /\ ~frame'.alert_generated
              /\ frame'.raised = "create_activity_log"
              /\ resp' = ServerError("logActivity")
       /\ (LogStep /\ frame'.alert_generated) =>
              activity_logs' = Append(activity_logs, CallRow)]_vars

\* a call scored 85 whose alert write has failed: the caller has the 500 and
\* the activity row of the call is the last row of the table
C21_Witness ==
    /\ LogResponse
    /\ frame.raised = "create_alert"
    /\ frame.risk_score = 85
    /\ resp.status = 500
    /\ Len(activity_logs) > 0
    /\ activity_logs[Len(activity_logs)].user_id = frame.activity.user_id
    /\ activity_logs[Len(activity_logs)].access_time = frame.activity.access_time
    /\ activity_logs[Len(activity_logs)].records_accessed = 5200

(***************************************************************************)
(* C22: the generation timestamp of the alerts log_activity writes.        *)
(***************************************************************************)

\* C22: every Alert written by logActivity carries a non-null generation
\* timestamp set when the alert is created: a call that decides to alert
\* (score >= threshold, activity row recorded) adds one row to alerts, that
\* row has a generated_at, and it is then among the user's alerts, so the
\* user's most recent alert by generation time is defined.
C22_AlertTimestamp ==
    [][(LogStep /\ frame'.alert_generated) =>
           /\ Len(alerts') = Len(alerts) + 1
           /\ alerts'[Len(alerts')].user_id = request'.params.user_id
           /\ alerts'[Len(alerts')].generated_at # None
           /\ LatestAlerts(alerts', request'.params.user_id) # {}]_vars

(***************************************************************************)
(* C23: calculate_risk_score only reads.                                   *)
(***************************************************************************)

\* C23: calculate_risk_score has no side effects: whatever its arguments and
\* the tables it is called over, a call leaves users, roles, role_policies
\* (the grants), role_baselines, activity_logs (Activity History) and alerts
\* as they were.
C23_NoSideEffects ==
    [][probe'.rule = "calculate_risk_score" =>
           /\ users' = users
           /\ roles' = roles
           /\ role_policies' = role_policies
           /\ role_baselines' = role_baselines
           /\ activity_logs' = activity_logs
           /\ alerts' = alerts]_vars

\* a call that ran all four checks over a table with rows: intern001's
\* unauthorized bulk read at 22:14 with four rows of the day behind it
C23_Witness ==
    /\ probe.rule = "calculate_risk_score"
    /\ probe.activity.user_id = "intern001"
    /\ probe.result[1] = 100
    /\ Len(probe.result[2]) = 4
    /\ activity_logs = History4
    /\ alerts = Alerts4

(***************************************************************************)
(* C24: the tiers of the three baseline rules under the reference weights. *)
(***************************************************************************)

\* the contribution of a rule whose tiers are met as top, mid and low say
TierOf(top, mid, low, values) ==
    IF top THEN values[1] ELSE IF mid THEN values[2] ELSE IF low THEN values[3]
    ELSE 0

\* hours_outside of check_off_hour_access: the distance to the normal hours,
\* 0 within them
HoursOutside(b, hour) ==
    IF hour < b.normal_start_hour THEN b.normal_start_hour - hour
    ELSE IF hour > b.normal_end_hour THEN hour - b.normal_end_hour
    ELSE 0

\* C24: with the reference weights each rule returns the single highest
\* tier matched, truncated toward zero: Volume 20, 16, 10 for a ratio of
\* records to the average above 10, 5, 2; Off-Hours 25, 17, 12 for
\* hours_outside of at least 4, 2, 1; Frequency 15, 10, 7 for a ratio of the
\* day's count to the daily average above 3, 2, 1.5; and 0 otherwise, also
\* when the average is 0 and when there is no baseline.
C24_TierValues ==
    /\ probe.rule = "check_excessive_records" =>
           probe.result[1] =
               IF probe.role_baseline = None THEN 0
               ELSE LET avg == probe.role_baseline[1].avg_records_per_access
                        n == probe.records_accessed * 100
                    IN  IF avg = 0 THEN 0
                        ELSE TierOf(n > 10 * avg, n > 5 * avg, n > 2 * avg,
                                    <<20, 16, 10>>)
    /\ probe.rule = "check_off_hour_access" =>
           probe.result[1] =
               IF probe.role_baseline = None THEN 0
               ELSE LET outside == HoursOutside(probe.role_baseline[1],
                                       (probe.access_time \div 60) % 24)
                    IN  TierOf(outside >= 4, outside >= 2, outside >= 1,
                               <<25, 17, 12>>)
    /\ probe.rule = "check_access_frequency" =>
           probe.result[1] =
               IF probe.role_baseline = None THEN 0
               ELSE LET avg == probe.role_baseline[1].avg_access_per_day
                        n == Cardinality(PriorSameDay(probe.logs,
                                 probe.user_id, probe.access_time))
                    IN  IF avg = 0 THEN 0
                        ELSE TierOf(n > 3 * avg, n > 2 * avg, 2 * n > 3 * avg,
                                    <<15, 10, 7>>)

\* 25 * 0.7 = 17.5 contributes 17: two hours after the end of normal hours
\* 9 to 17
C24_Witness ==
    /\ probe.rule = "check_off_hour_access"
    /\ probe.role_baseline = Some(Baseline(500, 20, 9, 17))
    /\ probe.access_time = DateTime(2, 19, 59)
    /\ probe.result[1] = 17

(***************************************************************************)
(* C25: the reasons calculate_risk_score returns for an active user.       *)
(***************************************************************************)

\* the reason of a rule in the list: there when the rule contributed
ReasonOf(contribution, reason) ==
    IF contribution # 0 THEN <<reason>> ELSE <<>>

\* C25: for an active known user the reasons list calculate_risk_score
\* returns holds one reason for each rule that contributed to the score and
\* none for a rule that contributed 0, in the order permission, volume,
\* off-hours, frequency; no entry of the list is empty.
C25_ReasonsInOrder ==
    (/\ probe.rule = "calculate_risk_score"
     /\ probe.activity.user_id \in DOMAIN users
     /\ users[probe.activity.user_id].status = "active")
        => LET a == probe.activity
               role_id == users[a.user_id].role_id
               b == get_role_baseline(role_id)
               violation == check_policy_violation(role_id, a.action, a.resource)
               permission == IF violation[1] THEN 40 ELSE 0
               volume == check_excessive_records(b, a.records_accessed)
               hours == check_off_hour_access(b, a.access_time)
               freq == check_access_frequency(activity_logs, a.user_id, b,
                                              a.access_time)
           IN  /\ probe.result[2] =
                      ReasonOf(permission, violation[2])
                          \o ReasonOf(volume[1], volume[2])
                          \o ReasonOf(hours[1], hours[2])
                          \o ReasonOf(freq[1], freq[2])
               /\ \A i \in 1..Len(probe.result[2]) : probe.result[2][i] # ""

\* intern001's granted bulk read at 10:00 with four rows of the day behind
\* it: volume and frequency contribute, permission and off-hours do not
C25_Witness ==
    /\ probe.rule = "calculate_risk_score"
    /\ probe.activity.user_id = "intern001"
    /\ probe.result[1] = 35
    /\ probe.result[2] = << "Extreme records access (5200 vs baseline 5.0)",
                            "Extremely high access frequency (4 today)" >>

(***************************************************************************)
(* C26: granted events stay under the threshold.                           *)
(***************************************************************************)

\* C26: with the reference weights and threshold, an event of an active
\* known user whose (action, resource) is granted, by an exact grant or by
\* a grant of the action on the wildcard resource, never produces an alert,
\* whatever its records_accessed, access_time and history: its score is at
\* most 60 = 20 + 25 + 15 < 70 and the call does not decide to alert; so a
\* call of an active user that decides to alert has a permission-violation
\* reason.
C26_GrantedNeverAlerts ==
    Scored(frame) =>
        LET role_id == users[frame.activity.user_id].role_id
            action == frame.activity.action
            resource == frame.activity.resource
        IN  /\ (ExactGrant(role_id, action, resource)
                    \/ WildcardGrant(role_id, action))
                 => /\ frame.risk_score <= 60
                    /\ ~frame.alert_generated
            /\ frame.alert_generated
                 => HasReason(frame, "Unauthorized " \o action
                                         \o " access to " \o resource)

====
